---- MODULE Spec2Model ----
(***************************************************************************)
(* Model of the cell-toolbar JupyterLab extension (src/src/index.ts).      *)
(*                                                                         *)
(* The extension is event driven and single threaded: every action below   *)
(* is one callback, handler or host event run to completion.  The host     *)
(* (tracker, shell, command registry, NotebookActions, React rendering) is *)
(* modelled at the calls the source makes, by the documented behaviour of  *)
(* those calls.                                                            *)
(***************************************************************************)
EXTENDS Integers, Sequences, FiniteSets, TLC

\* ---------------------------------------------------------------- bounds
MaxDocs == 2
MaxCells == 2
MaxFooters == 2
MaxClicks == 3
MaxApply == 3

Docs == 1..MaxDocs
Footers == 1..MaxFooters

\* null (no widget) and a widget of the shell that is no notebook panel
NoWidget == 0
OtherWidget == MaxDocs + 1

\* ------------------------------------------------------- program constants
HIDE_CELL_CODE == "hide-cell-code"
SHOW_CELL_CODE == "show-cell-code"
RUN_SELECTED_CODECELL == "run-selected-codecell"
CLEAR_SELECTED_OUTPUT == "clear-output-cell"
COMMANDS ==
  {HIDE_CELL_CODE, SHOW_CELL_CODE, RUN_SELECTED_CODECELL, CLEAR_SELECTED_OUTPUT}

HIDE_ICON == "fas fa-eye-slash"
SHOW_ICON == "fas fa-eye"
NoIcon == "not rendered"

\* an identifier nobody registers
Nonexistent == "nonexistent-action"
AllIds == COMMANDS \cup {Nonexistent}

CellTypes == {"code", "markdown"}

VARIABLES
  activated,        \* activateCommands has run (listener connected, then-callback attached)
  factoryActivated, \* cellFactory.activate has run (content factory exists)
  restored,         \* app.restored: "pending" | "resolved"
  commands,         \* identifiers registered in app.commands
  ready,            \* per document: "none" (not tracked) | "pending" | "resolved" (context.ready)
  collapsed,        \* per document: the ready callback (collapseAllCodeCells) has run
  cells,            \* per document: content.widgets, a sequence of cells
  active,           \* per document: index of the active cell, 0 when there is none
  trackerCurrent,   \* tracker.currentWidget
  shellCurrent,     \* app.shell.currentWidget
  footers,          \* per footer: existence, codeVisible, rendered icon, pending update, clicks
  ev                \* the last operation and what it did

vars == <<activated, factoryActivated, restored, commands, ready, collapsed,
          cells, active, trackerCurrent, shellCurrent, footers, ev>>

lifeVars == <<activated, factoryActivated, restored, commands>>
docVars == <<ready, collapsed, cells, active>>
focusVars == <<trackerCurrent, shellCurrent>>

\* ------------------------------------------------------------------ cells
\* out: "empty" (no outputs) | "busy" (execution requested, outputs cleared) | "filled"
NewCell(t, h) == [type |-> t, inputHidden |-> h, out |-> "empty"]

\* what a document can hold when its content becomes ready
RECURSIVE CellSeqs(_)
CellSeqs(n) ==
  IF n = 0 THEN {<<>>}
  ELSE LET shorter == CellSeqs(n - 1)
       IN shorter \cup
          {Append(s, NewCell(t, h)) :
             s \in {x \in shorter : Len(x) = n - 1}, t \in CellTypes, h \in BOOLEAN}
Notebooks == CellSeqs(MaxCells)

Event(op) ==
  [op |-> op, id |-> "", doc |-> NoWidget, footer |-> 0, btn |-> "", res |-> "none",
   arg |-> FALSE, act |-> FALSE, en |-> FALSE, dp |-> FALSE, calls |-> 0]

Init ==
  /\ activated = FALSE
  /\ factoryActivated = FALSE
  /\ restored = "pending"
  /\ commands = {}
  /\ ready = [d \in Docs |-> "none"]
  /\ collapsed = [d \in Docs |-> FALSE]
  /\ cells = [d \in Docs |-> <<>>]
  /\ active = [d \in Docs |-> 0]
  /\ trackerCurrent = NoWidget
  /\ shellCurrent = NoWidget
  /\ footers = [f \in Footers |->
                  [exists |-> FALSE, codeVisible |-> FALSE, icon |-> NoIcon,
                   dirty |-> FALSE, clicks |-> 0]]
  /\ ev = Event("init")

\* ------------------------------------------------- NotebookActions calls
\* Each acts on the notebook `content` it is given: cs is content.widgets and a
\* the index of the active (selected) cell.
IsSelectedOrActive(a, i) == i = a

\* NotebookActions.hideCode(content): hides the input of the selected code cells
hideCode(cs, a) ==
  [i \in DOMAIN cs |->
     IF IsSelectedOrActive(a, i) /\ cs[i].type = "code"
     THEN [cs[i] EXCEPT !.inputHidden = TRUE] ELSE cs[i]]

\* NotebookActions.showCode(content): shows the input of the selected code cells
showCode(cs, a) ==
  [i \in DOMAIN cs |->
     IF IsSelectedOrActive(a, i) /\ cs[i].type = "code"
     THEN [cs[i] EXCEPT !.inputHidden = FALSE] ELSE cs[i]]

\* NotebookActions.run(content, sessionContext): requests the execution of the
\* selected code cells, whose outputs are cleared when the request is made
run(cs, a) ==
  [i \in DOMAIN cs |->
     IF IsSelectedOrActive(a, i) /\ cs[i].type = "code"
     THEN [cs[i] EXCEPT !.out = "busy"] ELSE cs[i]]

\* NotebookActions.clearOutputs(content): clears the outputs of the selected code cells
clearOutputs(cs, a) ==
  [i \in DOMAIN cs |->
     IF IsSelectedOrActive(a, i) /\ cs[i].type = "code"
     THEN [cs[i] EXCEPT !.out = IF @ = "filled" THEN "empty" ELSE @] ELSE cs[i]]

\* a bulk effect that flips the input of every code cell
toggleAllCode(cs) ==
  [i \in DOMAIN cs |->
     IF cs[i].type = "code" THEN [cs[i] EXCEPT !.inputHidden = ~@] ELSE cs[i]]

\* NotebookActions.hideAllCode(content): hides the input of every code cell
hideAllCode(cs) ==
  [i \in DOMAIN cs |->
     IF cs[i].type = "code" THEN [cs[i] EXCEPT !.inputHidden = TRUE] ELSE cs[i]]

\* ------------------------------------------------------------- commands
\* getCurrent(args): the widget it returns
getCurrent == trackerCurrent

\* getCurrent that activates without testing the widget
getCurrentActivatesAlways(activate) == activate

\* a getCurrent that activates the widget whatever args.activate is
getCurrentActivatesUnasked(activate) == trackerCurrent # NoWidget

\* getCurrent(args): whether it calls shell.activateById
getCurrentActivates(activate) == activate /\ trackerCurrent # NoWidget

\* isEnabled without the test for null
isEnabledNoNull == trackerCurrent = shellCurrent

isEnabled ==
  /\ trackerCurrent # NoWidget
  /\ trackerCurrent = shellCurrent

\* the NotebookActions call made by the handler of command id
handlerCall(id, cs, a) ==
  CASE id = HIDE_CELL_CODE -> hideCode(cs, a)
    [] id = SHOW_CELL_CODE -> showCode(cs, a)
    [] id = RUN_SELECTED_CODECELL -> run(cs, a)
    [] id = CLEAR_SELECTED_OUTPUT -> clearOutputs(cs, a)

\* an `execute` that acts only when the command is enabled
executeIfEnabled(id, activate) ==
  LET current == getCurrent
  IN /\ shellCurrent' =
          IF isEnabled /\ getCurrentActivates(activate) THEN current ELSE shellCurrent
     /\ cells' =
          IF isEnabled /\ current # NoWidget
          THEN [cells EXCEPT ![current] = handlerCall(id, @, active[current])]
          ELSE cells

\* the `execute` function registered for command id, called with args.activate
execute(id, activate) ==
  LET current == getCurrent
  IN /\ shellCurrent' =
          IF getCurrentActivates(activate) THEN current ELSE shellCurrent
     /\ cells' =
          IF current # NoWidget
          THEN [cells EXCEPT ![current] = handlerCall(id, @, active[current])]
          ELSE cells

\* commands.execute(id, args): calls the registered `execute`; the promise it
\* returns is rejected when id is not registered
commandsExecute(id, activate) ==
  IF id \in commands
  THEN execute(id, activate)
  ELSE UNCHANGED <<cells, shellCurrent>>

executeResult(id) == IF id \in commands THEN "resolved" ELSE "rejected"

executeActivates(id, activate) == id \in commands /\ getCurrentActivates(activate)

\* ----------------------------------------------------------- event loop
\* The callback of a resolved promise is a microtask: it runs before the next
\* host or user event.  These are the callbacks that are due.

\* the registration run at activation, without waiting for app.restored
restoredNotAwaited == activated /\ commands = {}

\* Promise.all([app.restored]).then(...): the callback runs once, after the
\* promise has resolved
restoredAwaited == activated /\ restored = "resolved" /\ commands = {}

\* the callback called without waiting for the promise
readyNotAwaited(d) == ready[d] # "none" /\ ~collapsed[d]

\* a callback that waits for the commands to be registered
readyAwaitedRegistered(d) == ready[d] = "resolved" /\ ~collapsed[d] /\ commands # {}

\* a callback that is due again whenever the document shows a code cell
readyAwaitedAgain(d) ==
  /\ ready[d] = "resolved"
  /\ \/ ~collapsed[d]
     \/ \E i \in DOMAIN cells[d] : cells[d][i].type = "code" /\ ~cells[d][i].inputHidden

\* panel.context.ready.then(...): the callback runs once, after the promise
\* has resolved
readyAwaited(d) == ready[d] = "resolved" /\ ~collapsed[d]

CallbackDue == restoredAwaited \/ \E d \in Docs : readyAwaited(d)

\* a host or user event can be taken
Idle == ~CallbackDue

\* ------------------------------------------------------------- lifecycle
\* footerButtonExtension.activate: connects the widgetAdded listener and
\* attaches the callback to app.restored
activateCommands ==
  /\ Idle
  /\ ~activated
  /\ activated' = TRUE
  /\ ev' = Event("activate")
  /\ UNCHANGED <<factoryActivated, restored, commands, docVars, focusVars, footers>>

\* cellFactory.activate: the content factory that creates the footers exists
cellFactoryActivate ==
  /\ Idle
  /\ ~factoryActivated
  /\ factoryActivated' = TRUE
  /\ ev' = Event("factory")
  /\ UNCHANGED <<activated, restored, commands, docVars, focusVars, footers>>

\* the host resolves app.restored
Started == activated /\ factoryActivated

HostRestored ==
  /\ Idle
  /\ Started
  /\ restored = "pending"
  /\ restored' = "resolved"
  /\ ev' = Event("host")
  /\ UNCHANGED <<activated, factoryActivated, commands, docVars, focusVars, footers>>

\* the callback attached to app.restored: the four addCommand calls
registerCommands(reg) == reg \cup COMMANDS

RestoredCallback ==
  /\ restoredAwaited
  /\ commands' = registerCommands(commands)
  /\ ev' = Event("register")
  /\ UNCHANGED <<activated, factoryActivated, restored, docVars, focusVars, footers>>

\* ------------------------------------------------- documents (host events)
\* tracker.widgetAdded fires for a new panel: the listener attaches the
\* callback to panel.context.ready
WidgetAdded(d) ==
  /\ Idle
  /\ Started
  /\ ready[d] = "none"
  /\ \A e \in Docs : e < d => ready[e] # "none"
  /\ ready' = [ready EXCEPT ![d] = "pending"]
  /\ ev' = Event("host")
  /\ UNCHANGED <<lifeVars, collapsed, cells, active, focusVars, footers>>

\* the number of cells of all documents, which MaxCells bounds
RECURSIVE CellsUpTo(_)
CellsUpTo(d) == IF d = 0 THEN 0 ELSE Len(cells[d]) + CellsUpTo(d - 1)
TotalCells == CellsUpTo(MaxDocs)

\* the host resolves panel.context.ready: the content of the document is loaded
ContextReady(d, nb) ==
  /\ Idle
  /\ ready[d] = "pending"
  /\ TotalCells + Len(nb) <= MaxCells
  /\ ready' = [ready EXCEPT ![d] = "resolved"]
  /\ cells' = [cells EXCEPT ![d] = nb]
  /\ active' = [active EXCEPT ![d] = IF nb = <<>> THEN 0 ELSE 1]
  /\ ev' = Event("host")
  /\ UNCHANGED <<lifeVars, collapsed, focusVars, footers>>

\* collapseAllCodeCells(panel): one hideAllCode(panel.content) per code cell
RECURSIVE collapseFrom(_, _)
collapseFrom(cs, i) ==
  IF i > Len(cs) THEN [cells |-> cs, calls |-> 0]
  ELSE IF cs[i].type = "code"
       THEN LET rest == collapseFrom(hideAllCode(cs), i + 1)
            IN [cells |-> rest.cells, calls |-> rest.calls + 1]
       ELSE collapseFrom(cs, i + 1)

\* a collapse that calls hideCode, which hides the selected cells only
collapseSelected(cs) == [cells |-> hideCode(cs, 1), calls |-> 1]

collapseAllCodeCells(cs) == collapseFrom(cs, 1)

\* a callback that collapses the tracker's current panel, not its own
ReadyCallbackCurrent(d) ==
  /\ readyAwaited(d)
  /\ LET t == IF trackerCurrent \in Docs THEN trackerCurrent ELSE d
         r == collapseAllCodeCells(cells[t])
     IN /\ cells' = [cells EXCEPT ![t] = r.cells]
        /\ ev' = [Event("collapse") EXCEPT !.doc = d, !.calls = r.calls]
  /\ collapsed' = [collapsed EXCEPT ![d] = TRUE]
  /\ UNCHANGED <<lifeVars, ready, active, focusVars, footers>>

ReadyCallback(d) ==
  /\ readyAwaited(d)
  /\ LET r == collapseAllCodeCells(cells[d])
     IN /\ cells' = [cells EXCEPT ![d] = r.cells]
        /\ ev' = [Event("collapse") EXCEPT !.doc = d, !.calls = r.calls]
  /\ collapsed' = [collapsed EXCEPT ![d] = TRUE]
  /\ UNCHANGED <<lifeVars, ready, active, focusVars, footers>>

\* the user focuses a tracked notebook panel: it becomes the current widget
\* of the tracker and of the shell
FocusPanel(d) ==
  /\ Idle
  /\ ready[d] # "none"
  /\ trackerCurrent # d \/ shellCurrent # d
  /\ trackerCurrent' = d
  /\ shellCurrent' = d
  /\ ev' = Event("host")
  /\ UNCHANGED <<lifeVars, docVars, footers>>

\* the user focuses a widget that is no notebook panel: the tracker keeps its
\* current widget
FocusOther ==
  /\ Idle
  /\ Started
  /\ shellCurrent # OtherWidget
  /\ shellCurrent' = OtherWidget
  /\ ev' = Event("host")
  /\ UNCHANGED <<lifeVars, docVars, trackerCurrent, footers>>

\* the user selects another cell of a document
SelectCell(d, i) ==
  /\ Idle
  /\ i \in DOMAIN cells[d]
  /\ active[d] # i
  /\ active' = [active EXCEPT ![d] = i]
  /\ ev' = Event("host")
  /\ UNCHANGED <<lifeVars, ready, collapsed, cells, focusVars, footers>>

\* the user inserts a cell into a loaded document; it becomes the active cell
InsertCell(d, t) ==
  /\ Idle
  /\ ready[d] = "resolved"
  /\ TotalCells < MaxCells
  /\ cells' = [cells EXCEPT ![d] = Append(@, NewCell(t, FALSE))]
  /\ active' = [active EXCEPT ![d] = Len(cells[d]) + 1]
  /\ ev' = Event("host")
  /\ UNCHANGED <<lifeVars, ready, collapsed, focusVars, footers>>

\* the kernel completes a requested execution: the cell has outputs
ExecutionDone(d, i) ==
  /\ Idle
  /\ i \in DOMAIN cells[d]
  /\ cells[d][i].out = "busy"
  /\ cells' = [cells EXCEPT ![d][i].out = "filled"]
  /\ ev' = Event("host")
  /\ UNCHANGED <<lifeVars, ready, collapsed, active, focusVars, footers>>

\* ------------------------------------------------ dispatch outside footers
\* a keyboard shortcut or another extension calls commands.execute(id, args)
Dispatch(id, activate) ==
  /\ Idle
  /\ commandsExecute(id, activate)
  /\ ev' = [Event("dispatch") EXCEPT !.id = id, !.doc = trackerCurrent, !.en = isEnabled,
                                     !.res = executeResult(id),
                                     !.arg = activate,
                                     !.act = executeActivates(id, activate)]
  /\ UNCHANGED <<lifeVars, ready, collapsed, active, trackerCurrent, footers>>

\* the registry asks a registered command whether it is enabled
QueryEnabled(id) ==
  /\ Idle
  /\ id \in commands
  /\ ev' = [Event("query") EXCEPT !.id = id, !.doc = trackerCurrent, !.en = isEnabled,
                                  !.res = IF isEnabled THEN "true" ELSE "false"]
  /\ UNCHANGED <<lifeVars, docVars, focusVars, footers>>

\* ---------------------------------------------------------------- footers
\* ContentFactoryWithFooterButton.createCellFooter, called by the host for a
\* new cell: the constructor of CellFooterWithButton.  The widget is rendered
\* for the first time after it is attached, so it starts with an update pending.
NewFooter ==
  [exists |-> TRUE, codeVisible |-> FALSE, icon |-> NoIcon, dirty |-> TRUE, clicks |-> 0]

FooterCount == Cardinality({f \in Footers : footers[f].exists})

createCellFooter(f) ==
  /\ Idle
  /\ factoryActivated
  /\ ~footers[f].exists
  /\ \A g \in Footers : g < f => footers[g].exists
  /\ FooterCount < TotalCells
  /\ footers' = [footers EXCEPT ![f] = NewFooter]
  /\ ev' = [Event("footer") EXCEPT !.footer = f]
  /\ UNCHANGED <<lifeVars, docVars, focusVars>>

\* render(): the icon of the toggle button
toggleIcon(visible) == IF visible THEN HIDE_ICON ELSE SHOW_ICON

\* a render() that reads the flag back from the document's active cell
renderReadThrough(f) ==
  /\ Idle
  /\ footers[f].exists
  /\ footers[f].dirty
  /\ LET shown == \E d \in Docs : /\ active[d] \in DOMAIN cells[d]
                                  /\ ~cells[d][active[d]].inputHidden
     IN footers' = [footers EXCEPT ![f].codeVisible = shown,
                                   ![f].icon = toggleIcon(shown),
                                   ![f].dirty = FALSE]
  /\ ev' = [Event("render") EXCEPT !.footer = f]
  /\ UNCHANGED <<lifeVars, docVars, focusVars>>

\* the widget processes a pending update request by calling render()
render(f) ==
  /\ Idle
  /\ footers[f].exists
  /\ footers[f].dirty
  /\ footers' = [footers EXCEPT ![f].icon = toggleIcon(footers[f].codeVisible),
                                ![f].dirty = FALSE]
  /\ ev' = [Event("render") EXCEPT !.footer = f]
  /\ UNCHANGED <<lifeVars, docVars, focusVars>>

\* a listener that does not call preventDefault
containerClickPassive(defaultPrevented) == defaultPrevented

\* the click listener of the footer's node: event.preventDefault()
containerClick(defaultPrevented) == TRUE

\* a click event, not yet prevented, as it leaves the footer's node
clickPrevented == containerClick(FALSE)

Rendered(f) == footers[f].exists /\ footers[f].icon # NoIcon

\* onClick of the run button
ClickRun(f) ==
  /\ Idle
  /\ Rendered(f)
  /\ commandsExecute(RUN_SELECTED_CODECELL, TRUE)
  /\ ev' = [Event("click") EXCEPT !.btn = "run", !.footer = f,
              !.id = RUN_SELECTED_CODECELL, !.doc = trackerCurrent, !.en = isEnabled,
              !.res = executeResult(RUN_SELECTED_CODECELL),
              !.act = executeActivates(RUN_SELECTED_CODECELL, TRUE),
              !.arg = TRUE, !.dp = clickPrevented]
  /\ UNCHANGED <<lifeVars, ready, collapsed, active, trackerCurrent, footers>>

\* onClick of the toggle button: the command it dispatches
toggleCommand(visible) == IF visible THEN SHOW_CELL_CODE ELSE HIDE_CELL_CODE

\* a toggle that does not call this.update()
toggleFooterNoUpdate(ft) ==
  [ft EXCEPT !.codeVisible = ~ft.codeVisible, !.clicks = ft.clicks + 1]

\* a toggle that does nothing while the tracker has no current document
toggleFooterGuarded(ft) ==
  IF trackerCurrent = NoWidget
    THEN ft
    ELSE [ft EXCEPT !.codeVisible = ~ft.codeVisible, !.dirty = TRUE,
                    !.clicks = ft.clicks + 1]

\* onClick of the toggle button: what it does to the footer (this.update()
\* leaves an update pending)
toggleFooter(ft) ==
  [ft EXCEPT !.codeVisible = ~ft.codeVisible, !.dirty = TRUE, !.clicks = ft.clicks + 1]

ClickToggle(f) ==
  /\ Idle
  /\ Rendered(f)
  /\ footers[f].clicks < MaxClicks
  /\ footers' = [footers EXCEPT ![f] = toggleFooter(footers[f])]
  /\ LET id == toggleCommand(footers'[f].codeVisible)
     IN /\ commandsExecute(id, TRUE)
        /\ ev' = [Event("click") EXCEPT !.btn = "toggle", !.footer = f,
                    !.id = id, !.doc = trackerCurrent, !.en = isEnabled,
                    !.res = executeResult(id),
                    !.act = executeActivates(id, TRUE),
                    !.arg = TRUE, !.dp = clickPrevented]
  /\ UNCHANGED <<lifeVars, ready, collapsed, active, trackerCurrent>>

\* onClick of the clear button
ClickClear(f) ==
  /\ Idle
  /\ Rendered(f)
  /\ commandsExecute(CLEAR_SELECTED_OUTPUT, TRUE)
  /\ ev' = [Event("click") EXCEPT !.btn = "clear", !.footer = f,
              !.id = CLEAR_SELECTED_OUTPUT, !.doc = trackerCurrent, !.en = isEnabled,
              !.res = executeResult(CLEAR_SELECTED_OUTPUT),
              !.act = executeActivates(CLEAR_SELECTED_OUTPUT, TRUE),
              !.arg = TRUE, !.dp = clickPrevented]
  /\ UNCHANGED <<lifeVars, ready, collapsed, active, trackerCurrent, footers>>

\* a click inside the footer that hits no button
ClickContainer(f) ==
  /\ Idle
  /\ footers[f].exists
  /\ ev' = [Event("click") EXCEPT !.btn = "none", !.footer = f, !.dp = clickPrevented]
  /\ UNCHANGED <<lifeVars, docVars, focusVars, footers>>

\* ------------------------------------------------------- specifications
HostStartup ==
  \/ activateCommands
  \/ cellFactoryActivate
  \/ HostRestored
  \/ RestoredCallback

FooterSteps ==
  \/ \E f \in Footers : createCellFooter(f)
  \/ \E f \in Footers : render(f)
  \/ \E f \in Footers : ClickRun(f)
  \/ \E f \in Footers : ClickToggle(f)
  \/ \E f \in Footers : ClickClear(f)
  \/ \E f \in Footers : ClickContainer(f)

\* the commands and the documents, without the footers
NextCommands ==
  \/ HostStartup
  \/ \E d \in Docs : WidgetAdded(d)
  \/ \E d \in Docs, nb \in Notebooks : ContextReady(d, nb)
  \/ \E d \in Docs : ReadyCallback(d)
  \/ \E d \in Docs : FocusPanel(d)
  \/ FocusOther
  \/ \E d \in Docs, i \in 1..MaxCells : SelectCell(d, i)
  \/ \E d \in Docs, t \in CellTypes : InsertCell(d, t)
  \/ \E d \in Docs, i \in 1..MaxCells : ExecutionDone(d, i)
  \/ \E id \in AllIds, activate \in BOOLEAN : Dispatch(id, activate)
  \/ \E id \in COMMANDS : QueryEnabled(id)

SpecCommands == Init /\ [][NextCommands]_vars

\* the footers over one open document
NextFooters ==
  \/ HostStartup
  \/ WidgetAdded(1)
  \/ \E nb \in Notebooks : ContextReady(1, nb)
  \/ ReadyCallback(1)
  \/ FocusPanel(1)
  \/ FocusOther
  \/ \E id \in AllIds, activate \in BOOLEAN : Dispatch(id, activate)
  \/ FooterSteps

SpecFooters == Init /\ [][NextFooters]_vars

Next == NextCommands \/ FooterSteps

Spec == Init /\ [][Next]_vars

\* The event loop runs the callback of every resolved promise.
FairCommands ==
  /\ SpecCommands
  /\ WF_vars(RestoredCallback)
  /\ \A d \in Docs : WF_vars(ReadyCallback(d))

\* ------------------------------------------------------------------ claims
IsDispatch(e) == e.op \in {"dispatch", "click"} /\ e.id # ""

\* C1: an enablement query of a registered command answers true exactly when
\* the tracker has a current document and it is the shell's current widget,
\* evaluated in the state in which the query is made.
C1_EnablementIsCurrent ==
  ev.op = "query" =>
    /\ ev.id \in COMMANDS
    /\ ev.res = "true" <=> (trackerCurrent \in Docs /\ shellCurrent = trackerCurrent)
    /\ trackerCurrent = NoWidget => ev.res = "false"

\* C1 witness: a query answered false after the user left the tracked document
C1_Witness ==
  /\ ev.op = "query"
  /\ ev.res = "false"
  /\ trackerCurrent \in Docs
  /\ shellCurrent = OtherWidget

\* C2: a dispatch of a registered command while the tracker has no current
\* document resolves and changes no cell, no output, no execution request
\* and no shell activation.
C2_NoDocumentNoEffect ==
  [][(ev'.op = "dispatch" /\ ev'.id \in commands /\ trackerCurrent = NoWidget) =>
       /\ ev'.res = "resolved"
       /\ ~ev'.act
       /\ UNCHANGED <<lifeVars, docVars, focusVars, footers>>]_vars

\* C2 witness: a registered command was dispatched with no current document
C2_Witness ==
  /\ ev.op = "dispatch"
  /\ ev.id \in COMMANDS
  /\ ev.res = "resolved"
  /\ ev.doc = NoWidget
  /\ \E d \in Docs : cells[d] # <<>>

\* C3: a footer starts with codeVisible false and the show icon; its n-th
\* toggle click leaves codeVisible true and dispatches show-cell-code when n
\* is odd, leaves it false and dispatches hide-cell-code when n is even, and
\* requests a re-render, after which the icon is the hide icon exactly when
\* codeVisible is true; after an even number of clicks the rendered footer
\* is as it was at first.
Odd(n) == n % 2 = 1

C3_ToggleParity ==
  \A f \in Footers :
    LET ft == footers[f]
    IN ft.exists =>
         /\ ft.codeVisible = Odd(ft.clicks)
         /\ ft.clicks = 0 => ft.icon \in {NoIcon, SHOW_ICON}
         /\ ~ft.dirty => ft.icon = (IF ft.codeVisible THEN HIDE_ICON ELSE SHOW_ICON)
         /\ (~ft.dirty /\ ~Odd(ft.clicks)) => (~ft.codeVisible /\ ft.icon = SHOW_ICON)
         /\ (ev.op = "click" /\ ev.btn = "toggle" /\ ev.footer = f) =>
              /\ ft.clicks > 0
              /\ ft.dirty
              /\ ev.id = (IF Odd(ft.clicks) THEN SHOW_CELL_CODE ELSE HIDE_CELL_CODE)

\* C3 witness: the second click on a toggle dispatched hide-cell-code, after
\* the first one had been rendered
C3_Witness ==
  /\ ev.op = "click"
  /\ ev.btn = "toggle"
  /\ ev.id = HIDE_CELL_CODE
  /\ footers[ev.footer].clicks = 2
  /\ footers[ev.footer].icon = HIDE_ICON
  /\ ~footers[ev.footer].codeVisible

\* C4: once the ready signal of a tracked document has resolved, the collapse
\* runs and leaves every code cell of that document hidden; the collapse
\* changes no cell of another type.
AllCodeHidden(d) ==
  \A i \in DOMAIN cells[d] : cells[d][i].type = "code" => cells[d][i].inputHidden

C4_CollapseOnLoad ==
  /\ \A d \in Docs :
       (ready[d] = "resolved" /\ ~collapsed[d])
         ~> (ev.op = "collapse" /\ ev.doc = d /\ AllCodeHidden(d))
  /\ [][ev'.op = "collapse" =>
          \A d \in Docs :
            /\ Len(cells'[d]) = Len(cells[d])
            /\ \A i \in DOMAIN cells[d] :
                 cells[d][i].type # "code" => cells'[d][i] = cells[d][i]]_vars

\* C4 witness: a collapsed document with a hidden code cell that is not the
\* first cell, and a markdown cell that is still shown
C4_Witness ==
  \E d \in Docs :
    /\ ev.op = "collapse"
    /\ ev.doc = d
    /\ Len(cells[d]) = 2
    /\ cells[d][1].type = "markdown" /\ ~cells[d][1].inputHidden
    /\ cells[d][2].type = "code" /\ cells[d][2].inputHidden

\* C6: a dispatch of a registered command, from a footer click too, performs
\* the effect on the tracker's current document when that document is not
\* the shell's current widget.
ActiveCode(d) ==
  /\ active[d] \in DOMAIN cells[d]
  /\ cells[d][active[d]].type = "code"

C6_DispatchIgnoresEnablement ==
  [][(IsDispatch(ev') /\ ev'.id \in commands /\ trackerCurrent \in Docs
        /\ shellCurrent # trackerCurrent /\ ActiveCode(trackerCurrent)) =>
       LET d == trackerCurrent
           c == cells'[d][active[d]]
       IN /\ ev'.res = "resolved"
          /\ ev'.id = HIDE_CELL_CODE => c.inputHidden
          /\ ev'.id = SHOW_CELL_CODE => ~c.inputHidden
          /\ ev'.id = RUN_SELECTED_CODECELL => c.out = "busy"
          /\ ev'.id = CLEAR_SELECTED_OUTPUT => c.out # "filled"]_vars

\* C6 witness: a footer click showed the code of a cell while the command
\* was not enabled
C6_Witness ==
  /\ ev.op = "click"
  /\ ev.id = SHOW_CELL_CODE
  /\ ~ev.en
  /\ ev.doc \in Docs
  /\ ActiveCode(ev.doc)
  /\ ~cells[ev.doc][active[ev.doc]].inputHidden

\* C8: no footer click dispatches a command that is not registered yet.
C8_RegisteredBeforeClick ==
  (ev.op = "click" /\ ev.id # "") => ev.id \in commands

\* C9: the collapse of a document runs only after that document's ready
\* signal has resolved, and is due as soon as it has, whatever the state of
\* the other documents; a document whose signal has not resolved is not
\* collapsed.
C9_CollapseAfterOwnReady ==
  \A d \in Docs :
    /\ collapsed[d] => ready[d] = "resolved"
    /\ (ev.op = "collapse" /\ ev.doc = d) => collapsed[d]
    /\ ready[d] \in {"none", "pending"} => cells[d] = <<>>
    /\ (ready[d] = "resolved" /\ ~collapsed[d]) => ENABLED ReadyCallback(d)

\* C9 witness: the second document is collapsed while the signal of the
\* first one, added before it, has not resolved
C9_Witness ==
  /\ ev.op = "collapse"
  /\ ev.doc = 2
  /\ collapsed[2]
  /\ cells[2] # <<>>
  /\ ready[1] = "pending"

\* C10: every click that reaches the footer's node has its default action
\* prevented.
C10_DefaultPrevented == ev.op = "click" => ev.dp

\* C10 witness: a click that hit no button of a footer whose code is shown
C10_Witness ==
  /\ ev.op = "click"
  /\ ev.btn = "none"
  /\ ev.dp
  /\ footers[ev.footer].codeVisible

HasCode(cs) == \E i \in 1..Len(cs) : cs[i].type = "code"

\* C11: when a tracked document with code cells becomes ready, the collapse
\* invokes the bulk hide-all-code effect exactly once for the whole document,
\* whatever the number of its code cells (not once per code cell).
C11_OneBulkHidePerDocument ==
  (ev.op = "collapse" /\ HasCode(cells[ev.doc])) => ev.calls = 1

OwnToggleClick(e, f) == e.op = "click" /\ e.btn = "toggle" /\ e.footer = f

\* C12: a footer's codeVisible is changed only by a click on that footer's own
\* toggle button; every other step (run and clear clicks, toggle clicks on
\* other footers, show/hide dispatched by another path, the bulk collapse, any
\* change of a document's visibility flags) leaves it unchanged, so it equals
\* the parity of the clicks that footer's toggle has received.
C12_OnlyOwnToggle ==
  [][\A f \in Footers :
       /\ footers'[f].codeVisible # footers[f].codeVisible => OwnToggleClick(ev', f)
       /\ footers'[f].clicks # footers[f].clicks => OwnToggleClick(ev', f)
       /\ OwnToggleClick(ev', f) =>
            /\ footers'[f].codeVisible = ~footers[f].codeVisible
            /\ footers'[f].clicks = footers[f].clicks + 1
       /\ footers'[f].codeVisible = Odd(footers'[f].clicks)]_vars

\* a footer toggled to visible keeps its flag while another path hides the
\* code of the document and a second footer was never toggled
C12_Witness ==
  /\ ev.op = "dispatch" /\ ev.id = HIDE_CELL_CODE /\ ev.doc = 1
  /\ HasCode(cells[1]) /\ AllCodeHidden(1)
  /\ footers[1].codeVisible /\ footers[1].clicks = 1
  /\ footers[2].exists /\ ~footers[2].codeVisible

\* C13: the toggle button has no guard: it can be clicked whenever the footer
\* is rendered, and a click flips codeVisible and requests a re-render even
\* when the tracker has no current document; the show-code or hide-code it
\* then dispatches is a no-op, so no cell's visibility flag (and no other
\* document state) changes.
C13_ToggleUnguarded ==
  /\ [](\A f \in Footers :
          (Idle /\ Rendered(f) /\ footers[f].clicks < MaxClicks) => ENABLED ClickToggle(f))
  /\ [][\A f \in Footers :
          (OwnToggleClick(ev', f) /\ trackerCurrent = NoWidget) =>
             /\ footers'[f].codeVisible = ~footers[f].codeVisible
             /\ footers'[f].dirty
             /\ ev'.id = toggleCommand(footers'[f].codeVisible)
             /\ ev'.doc = NoWidget /\ ~ev'.act
             /\ UNCHANGED <<docVars, focusVars>>]_vars

\* a registered show-code dispatched by a toggle click without a current
\* document: the footer says visible, the code of the open document is hidden
C13_Witness ==
  /\ ev.op = "click" /\ ev.btn = "toggle" /\ ev.doc = NoWidget
  /\ ev.id = SHOW_CELL_CODE /\ ev.id \in commands
  /\ footers[ev.footer].codeVisible /\ footers[ev.footer].dirty
  /\ HasCode(cells[1]) /\ AllCodeHidden(1)

NewlyHidden(d) ==
  \E i \in DOMAIN cells'[d] :
    /\ cells'[d][i].inputHidden
    /\ i \in DOMAIN cells[d] => ~cells[d][i].inputHidden

\* C14: the load policy runs one collapse pass per added document and never
\* again: a collapse step is the first of its document, and once it has
\* run, a cell inserted into the document arrives visible and nothing but a
\* dispatched hide-code hides a cell of that document.
C14_CollapseOnce ==
  [][/\ ev'.op = "collapse" => ~collapsed[ev'.doc] /\ collapsed'[ev'.doc]
     /\ \A d \in Docs :
          collapsed[d] =>
            /\ collapsed'[d]
            /\ Len(cells'[d]) > Len(cells[d]) => ~cells'[d][Len(cells'[d])].inputHidden
            /\ NewlyHidden(d) => IsDispatch(ev') /\ ev'.id = HIDE_CELL_CODE]_vars

\* no command is registered, so only an insertion after the collapse pass can
\* have left a visible code cell next to the hidden one
C14_Witness ==
  \E d \in Docs :
    /\ collapsed[d] /\ commands = {}
    /\ \E i, j \in DOMAIN cells[d] :
         /\ cells[d][i].type = "code" /\ cells[d][i].inputHidden
         /\ cells[d][j].type = "code" /\ ~cells[d][j].inputHidden

\* C15: of the four command identifiers either none or all four are
\* registered: none while app.restored is unresolved (so never, if it never
\* resolves), and a dispatch of any of them then fails as unknown and changes
\* nothing; all four from the restoration callback, which registers them in
\* one step, onwards.
C15_NoneOrAllFour ==
  /\ [](/\ commands \in {{}, COMMANDS}
        /\ restored = "pending" => commands = {}
        /\ (restored = "resolved" /\ commands = {}) => ENABLED RestoredCallback
        /\ (ev.op = "dispatch" /\ ev.id \in COMMANDS /\ commands = {}) =>
             ev.res = "rejected" /\ ~ev.act)
  /\ [][/\ commands # {} => commands' = commands
        /\ ev'.op = "register" => commands = {} /\ commands' = COMMANDS
        /\ (IsDispatch(ev') /\ commands = {}) => UNCHANGED <<docVars, focusVars>>]_vars

\* a dispatch on an open document with a visible code cell, made while
\* app.restored is pending, is rejected
C15_Witness ==
  /\ restored = "pending" /\ commands = {}
  /\ ev.op = "dispatch" /\ ev.id = HIDE_CELL_CODE /\ ev.res = "rejected"
  /\ ev.doc \in Docs /\ ActiveCode(ev.doc) /\ ~cells[ev.doc][active[ev.doc]].inputHidden

\* C16: the handler of a dispatched command resolves the tracker's current
\* document and activates it on the shell exactly when the activate argument
\* is not false and a document exists: with activate = false or with no
\* document the shell's current widget is left alone; with default arguments
\* and a document, that document is the shell's current widget when the
\* effect has been applied.
C16_ActivateWhenAsked ==
  [][(IsDispatch(ev') /\ ev'.id \in commands) =>
       /\ ev'.doc = trackerCurrent /\ trackerCurrent' = trackerCurrent
       /\ ev'.act <=> (ev'.arg /\ trackerCurrent # NoWidget)
       /\ ev'.act => shellCurrent' = trackerCurrent
       /\ ~ev'.act => shellCurrent' = shellCurrent]_vars

\* hide-code dispatched with activate = false while another widget is the
\* shell's current one: the cell is hidden and the shell has not moved
C16_Witness ==
  /\ ev.op = "dispatch" /\ ev.id = HIDE_CELL_CODE /\ ev.res = "resolved"
  /\ ~ev.arg /\ ~ev.act
  /\ ev.doc \in Docs /\ shellCurrent = OtherWidget
  /\ ActiveCode(ev.doc) /\ cells[ev.doc][active[ev.doc]].inputHidden

CellsOutsideUnchanged(w) == \A d \in Docs : d # w => cells'[d] = cells[d]

\* C17: effects stay inside one document: a dispatch of one of the four
\* commands changes cells of the tracker's current document only, and the
\* collapse run for a document (the one whose ready promise resolved) changes
\* cells of that document only, also when another document is the tracker's
\* current one.
C17_OneDocument ==
  [][/\ IsDispatch(ev') => CellsOutsideUnchanged(trackerCurrent)
     /\ ev'.op = "collapse" =>
          /\ ready[ev'.doc] = "resolved" /\ ~collapsed[ev'.doc]
          /\ CellsOutsideUnchanged(ev'.doc)]_vars

\* the second document is collapsed while the first one, which shows a code
\* cell, is the tracker's current document
C17_Witness ==
  /\ ev.op = "collapse" /\ ev.doc = 2 /\ trackerCurrent = 1
  /\ HasCode(cells[2]) /\ AllCodeHidden(2)
  /\ HasCode(cells[1]) /\ ~AllCodeHidden(1)

RECURSIVE hideAllCodeTimes(_, _)
hideAllCodeTimes(cs, n) ==
  IF n = 0 THEN cs ELSE hideAllCodeTimes(hideAllCode(cs), n - 1)

\* C18: the bulk hide-all-code effect is idempotent: applied to any document
\* any number of times, at least once, it leaves the cells as one application
\* does; so the collapse, which applies it once per code cell, leaves the
\* document as one application would.
C18_HideAllIdempotent ==
  /\ [](\A d \in Docs : \A n \in 1..MaxApply :
          hideAllCodeTimes(cells[d], n) = hideAllCode(cells[d]))
  /\ [][(ev'.op = "collapse" /\ ev'.calls >= 1) =>
          cells'[ev'.doc] = hideAllCode(cells[ev'.doc])]_vars

\* a collapse that applied the effect twice
C18_Witness ==
  /\ ev.op = "collapse" /\ ev.calls = 2
  /\ HasCode(cells[ev.doc]) /\ AllCodeHidden(ev.doc)

\* C19: the collapse on load does not depend on the registration of the
\* commands: from activation on, before app.restored resolves, a document can
\* be added; once its context is ready its collapse is due whether or not a
\* command is registered, and the collapse hides every code cell of the
\* document and leaves the registry alone.
C19_CollapseWithoutRegistry ==
  /\ [](/\ (Started /\ Idle /\ ready[1] = "none") => ENABLED WidgetAdded(1)
        /\ \A d \in Docs :
             (ready[d] = "resolved" /\ ~collapsed[d] /\ commands = {}) =>
               ENABLED ReadyCallback(d)
        /\ (ev.op = "collapse" /\ commands = {}) => AllCodeHidden(ev.doc))
  /\ [][ev'.op = "collapse" => commands' = commands /\ restored' = restored]_vars

\* a document with a code cell has been collapsed while app.restored is
\* pending and no command is registered
C19_Witness ==
  /\ ev.op = "collapse" /\ restored = "pending" /\ commands = {}
  /\ HasCode(cells[ev.doc]) /\ AllCodeHidden(ev.doc)

====
